---- MODULE Spec2Model ----
(***************************************************************************)
(* Kingdom Simulator: the game-state simulation core.                      *)
(*                                                                         *)
(* The repository holds three builds of the same React application:        *)
(*   "buildings"  src/unnamed/part_000 lines 11-1501 (buildings, choice    *)
(*                events, action gates `can`)                              *)
(*   "gated"      src/unnamed/part_000 lines 1502-2110 (action gates)      *)
(*   "main"       src/main.tsx (no gates, no fight.over flag)              *)
(* The whole game state is one serialisable object `s` (useState<State>).  *)
(* Every handler runs against the state of the last render and queues its  *)
(* updaters; the model applies the updaters of one handler in the order    *)
(* the handler issues them and takes one handler per step.  Log texts are  *)
(* not modelled, a log entry is its tag and its id.  Every random draw is  *)
(* an input of the handler.  `last` records the handler invoked by the     *)
(* last step and its arguments, `returned` what it returned; `store` is    *)
(* the item of localStorage under SAVE_KEY.  `toil` is a history variable: *)
(* the strength right after the last sleep and the number of successful    *)
(* strength-consuming commands since then.                                 *)
(***************************************************************************)
EXTENDS Integers, Sequences, FiniteSets, TLC

VARIABLES variant, s, last, store, returned, toil

vars == <<variant, s, last, store, returned, toil>>

Variants == {"buildings", "gated", "main"}

Gated(v) == v \in {"buildings", "gated"}

----------------------------------------------------------------------------
(* Utilities                                                               *)

Max(a, b) == IF a >= b THEN a ELSE b

Min(a, b) == IF a <= b THEN a ELSE b

\* A clamp that forgets its lower bound (fault model for the happiness range).
clampNoFloor(v, lo, hi) == Min(hi, v)

clamp(v, lo, hi) == Max(lo, Min(hi, v))

\* The draws of rand(1, 100) the model enumerates: the code only compares
\* such a draw with the thresholds 3, 10, 15, 20, 30, 40, 50, 55, 60, 70 and
\* 80, and D100 holds one draw of every interval these thresholds delimit.
D100 == {3, 10, 15, 20, 30, 40, 50, 55, 60, 70, 80, 100}

\* rand(a, b) is an inclusive uniform draw from a..b; for an amount the model
\* enumerates the two extreme draws.
rand(a, b) == IF a = 1 /\ b = 100 THEN D100 ELSE {a, b}

\* Math.random() < 0.5: either outcome.
coin == BOOLEAN

----------------------------------------------------------------------------
(* Static game data                                                        *)

ERA_SEQ == <<"Bronze Age", "Iron Age", "Roman Age", "Medievil Age", "Electric Age", "Modern Age">>

EraNames == {"Stone Age"} \cup {ERA_SEQ[i] : i \in 1..Len(ERA_SEQ)}

WEAPONS ==
  { [id |-> 1, era |-> 1, price |-> 1000, damage |-> 2],
    [id |-> 2, era |-> 1, price |-> 5000, damage |-> 5],
    [id |-> 3, era |-> 1, price |-> 7500, damage |-> 7],
    [id |-> 4, era |-> 1, price |-> 12000, damage |-> 12],
    [id |-> 5, era |-> 1, price |-> 16000, damage |-> 15],
    [id |-> 1, era |-> 3, price |-> 165000, damage |-> 34],
    [id |-> 2, era |-> 3, price |-> 200000, damage |-> 38],
    [id |-> 3, era |-> 3, price |-> 220000, damage |-> 42],
    [id |-> 4, era |-> 3, price |-> 235000, damage |-> 46],
    [id |-> 5, era |-> 3, price |-> 260000, damage |-> 50],
    [id |-> 1, era |-> 5, price |-> 30000, damage |-> 17],
    [id |-> 2, era |-> 5, price |-> 45000, damage |-> 20],
    [id |-> 3, era |-> 5, price |-> 60000, damage |-> 24],
    [id |-> 4, era |-> 5, price |-> 90000, damage |-> 27],
    [id |-> 5, era |-> 5, price |-> 120000, damage |-> 30],
    [id |-> 1, era |-> 6, price |-> 1045000, damage |-> 98],
    [id |-> 2, era |-> 6, price |-> 1100000, damage |-> 100],
    [id |-> 3, era |-> 6, price |-> 1150000, damage |-> 102],
    [id |-> 4, era |-> 6, price |-> 1200000, damage |-> 104],
    [id |-> 5, era |-> 6, price |-> 1300000, damage |-> 106],
    [id |-> 1, era |-> 7, price |-> 9000, damage |-> 75],
    [id |-> 2, era |-> 7, price |-> 12000, damage |-> 95],
    [id |-> 3, era |-> 7, price |-> 20000, damage |-> 120] }

POTIONS ==
  { [var |-> "hpotion", price |-> 500],
    [var |-> "mpotion", price |-> 750],
    [var |-> "spotion", price |-> 1000],
    [var |-> "dpotion", price |-> 1500],
    [var |-> "lightning_potion", price |-> 2000],
    [var |-> "sleep_potion", price |-> 1800],
    [var |-> "poison_potion", price |-> 1700] }

FOOD ==
  { [var |-> "bread", price |-> 20],
    [var |-> "meat", price |-> 50],
    [var |-> "fruit", price |-> 30],
    [var |-> "cheese", price |-> 40] }

InventoryKeys == {p.var : p \in POTIONS} \cup {f.var : f \in FOOD}

ENEMY ==
  [ EASY   |-> [health |-> 100, damage_min |-> 2, damage_max |-> 7, coins_min |-> 50, coins_max |-> 150],
    MEDIUM |-> [health |-> 200, damage_min |-> 7, damage_max |-> 12, coins_min |-> 100, coins_max |-> 500],
    HARD   |-> [health |-> 300, damage_min |-> 10, damage_max |-> 20, coins_min |-> 150, coins_max |-> 800] ]

Difficulties == {"EASY", "MEDIUM", "HARD"}

\* fight.cfg === null
NoCfg == [health |-> 0, damage_min |-> 0, damage_max |-> 0, coins_min |-> 0, coins_max |-> 0]

MERCHANT_BY_ERA ==
  [ e \in EraNames |->
      CASE e = "Stone Age" ->
             << [name |-> "Sharpened Bone", bonus |-> 15, price |-> 600, rarity |-> "Common"],
                [name |-> "Jagged Flint Axe", bonus |-> 20, price |-> 1200, rarity |-> "Rare"],
                [name |-> "Mammoth Fang Blade", bonus |-> 30, price |-> 2000, rarity |-> "Epic"] >>
        [] e = "Bronze Age" ->
             << [name |-> "Bronze Shortblade", bonus |-> 22, price |-> 1400, rarity |-> "Common"],
                [name |-> "Fire-Hardened Spear", bonus |-> 30, price |-> 2400, rarity |-> "Rare"],
                [name |-> "Sun-Kissed Dagger", bonus |-> 38, price |-> 3500, rarity |-> "Epic"] >>
        [] e = "Iron Age" ->
             << [name |-> "Iron Cleaver", bonus |-> 35, price |-> 3000, rarity |-> "Common"],
                [name |-> "Spiked Mace", bonus |-> 42, price |-> 4000, rarity |-> "Rare"],
                [name |-> "Molten Iron Blade", bonus |-> 52, price |-> 5500, rarity |-> "Epic"] >>
        [] e = "Roman Age" ->
             << [name |-> "Legionnaire's Gladius", bonus |-> 40, price |-> 3500, rarity |-> "Common"],
                [name |-> "Colosseum Cutter", bonus |-> 50, price |-> 5000, rarity |-> "Rare"],
                [name |-> "Centurion's Edge", bonus |-> 65, price |-> 7500, rarity |-> "Epic"] >>
        [] e = "Medievil Age" ->
             << [name |-> "Crusader Sword", bonus |-> 50, price |-> 5000, rarity |-> "Common"],
                [name |-> "Dragonsteel Falchion", bonus |-> 60, price |-> 7000, rarity |-> "Rare"],
                [name |-> "Vampire Slayer", bonus |-> 80, price |-> 10000, rarity |-> "Epic"] >>
        [] e = "Electric Age" ->
             << [name |-> "Insulated Cutter", bonus |-> 65, price |-> 7000, rarity |-> "Common"],
                [name |-> "Arc Blade", bonus |-> 80, price |-> 10000, rarity |-> "Rare"],
                [name |-> "Tesla Edge", bonus |-> 100, price |-> 15000, rarity |-> "Epic"] >>
        [] OTHER ->
             << [name |-> "Composite Tactical Knife", bonus |-> 75, price |-> 9000, rarity |-> "Common"],
                [name |-> "Smartsteel Katana", bonus |-> 95, price |-> 12000, rarity |-> "Rare"],
                [name |-> "Prototype Laser Saber", bonus |-> 120, price |-> 20000, rarity |-> "Epic"] >> ]

\* The three unique merchant items (the array literal inside merchant_event).
RARE_ITEMS ==
  << [kind |-> "unique", name |-> "Golden Cheese", effect |-> "happiness", value |-> 5, price |-> 700],
     [kind |-> "unique", name |-> "Ancient Scroll", effect |-> "maxstrength", value |-> 1, price |-> 1000],
     [kind |-> "unique", name |-> "Map Fragment", effect |-> "none", value |-> 0, price |-> 800] >>

\* pendingMerchant === null
NoOffer == [kind |-> "none", name |-> "none", effect |-> "none", value |-> 0, price |-> 0]

PolicyNames ==
  << "Universal Tax", "Charity Relief", "Royal Festival", "Food Rationing",
     "Open Borders", "Public Health", "Work Tax Rebate", "Electric Welfare" >>

BUILDING_OPTIONS ==
  << [id |-> "farm", cost |-> 200, money |-> 0, bread |-> 10, happiness |-> 0, maxstrength |-> 0],
     [id |-> "barracks", cost |-> 500, money |-> 0, bread |-> 0, happiness |-> 0, maxstrength |-> 1],
     [id |-> "workshop", cost |-> 800, money |-> 50, bread |-> 0, happiness |-> 0, maxstrength |-> 0],
     [id |-> "temple", cost |-> 300, money |-> 0, bread |-> 0, happiness |-> 2, maxstrength |-> 0] >>

\* Each option is its effect deltas; an absent delta is 0 (the code tests
\* `if (eff.money)`, which is false for an absent and for a zero delta alike).
CHOICE_EVENTS ==
  << << [money |-> -200, bread |-> 30, happiness |-> 0, people |-> 0, strength |-> 0, maxstrength |-> 0],
        [money |-> 0, bread |-> 0, happiness |-> -3, people |-> 0, strength |-> 0, maxstrength |-> 0] >>,
     << [money |-> -200, bread |-> 0, happiness |-> 5, people |-> 0, strength |-> 0, maxstrength |-> 0],
        [money |-> 0, bread |-> 0, happiness |-> -5, people |-> -3, strength |-> 0, maxstrength |-> 0] >> >>

\* choiceEvent === null is index 0; an event is its index in CHOICE_EVENTS.
NoChoice == 0

LOG_CAP == 600

----------------------------------------------------------------------------
(* The state object                                                        *)

\* last_merchant_offer_type === null
NoType == "null"

createInitialState(dd) ==
  [ day |-> 1, death_day |-> dd, money |-> 999990, exmoney |-> 5000, pmoney |-> 0,
    people |-> 50, maxpeople |-> 50, happiness |-> 50,
    phealth |-> 100, strength |-> 3, maxstrength |-> 3, ehealth |-> 100,
    inventory |-> [k \in InventoryKeys |-> IF k = "bread" THEN 10 ELSE 0],
    currentEra |-> "Stone Age", minDmg |-> 5, maxDmg |-> 15, wfight |-> 0, lfight |-> 0,
    merchant_relationship |-> 0, merchant_weapon_log |-> {}, last_merchant_offer_type |-> NoType,
    number |-> -1, owned_weapon |-> [e \in 1..7 |-> 0],
    policies |-> [p \in {PolicyNames[i] : i \in 1..Len(PolicyNames)} |-> [locked |-> TRUE, active |-> FALSE]],
    logs |-> <<>>,
    pendingMerchant |-> NoOffer,
    fight |-> [cfg |-> NoCfg, stunned |-> FALSE, poisonTurns |-> 0, over |-> FALSE],
    buildings |-> <<>>, maxBuildings |-> 3, choiceEvent |-> NoChoice ]

\* An appendLog that numbers an entry by the length of the log (fault model
\* for the ids after eviction).
appendLogByLength(st, tag) ==
  LET nextLogs == Append(st.logs, [tag |-> tag, id |-> Len(st.logs) + 1])
      n == Len(nextLogs)
  IN [st EXCEPT !.logs = IF n > LOG_CAP THEN SubSeq(nextLogs, n - LOG_CAP + 1, n) ELSE nextLogs]

\* appendLog: id is the last id plus one (1 for an empty log); keep the
\* last LOG_CAP entries.
appendLog(st, tag) ==
  LET nextId == IF Len(st.logs) > 0 THEN st.logs[Len(st.logs)].id + 1 ELSE 1
      nextLogs == Append(st.logs, [tag |-> tag, id |-> nextId])
      n == Len(nextLogs)
  IN [st EXCEPT !.logs = IF n > LOG_CAP THEN SubSeq(nextLogs, n - LOG_CAP + 1, n) ELSE nextLogs]

\* The state without its log (what a refusal must leave alone).
NonLog(st) == [st EXCEPT !.logs = <<>>]

\* A discount of 5 percent per relationship level instead of 6 (fault model
\* for the offer price; every catalog price is a multiple of 100, so the
\* rounding of the discount never shows).
discountedPriceFivePercent(cl, base) ==
  base - ((base * (cl.merchant_relationship * 5)) \div 100)

\* discountedPrice: cl is the render snapshot the helper closes over.
\* Math.floor(base * (discPct / 100)) is (base * discPct) \div 100 for every
\* catalog price and every relationship level.
discountedPrice(cl, base) ==
  LET discPct == cl.merchant_relationship * 6
      disc == (base * discPct) \div 100
  IN base - disc

----------------------------------------------------------------------------
(* Save and load                                                           *)

\* localStorage.getItem(SAVE_KEY) === null
NoSave == [kind |-> "none", doc |-> createInitialState(0)]

\* A stored text that JSON.parse rejects.
Unreadable == [kind |-> "garbage", doc |-> createInitialState(0)]

\* JSON.stringify(s): every field of the state is a number, a string, a
\* boolean, null, an array or a plain object, so the text holds the state.
stringify(st) == [kind |-> "json", doc |-> st]

\* save: the state of the last render is stored, then the entry is logged.
save(st) == [state |-> appendLog(st, "system"), store |-> stringify(st)]

\* A load that installs the default state when the text is unreadable
\* (fault model for the load failure).
load_defaulting(raw, st) ==
  IF raw.kind = "none" THEN [state |-> appendLog(st, "system"), ok |-> "false"]
  ELSE IF raw.kind = "json" THEN [state |-> appendLog(raw.doc, "system"), ok |-> "true"]
  ELSE [state |-> appendLog(raw.doc, "danger"), ok |-> "false"]

\* load: no item, a text that parses (the parsed object replaces the state
\* and the entry is logged on it), or a text on which JSON.parse throws.
load(raw, st) ==
  IF raw.kind = "none" THEN [state |-> appendLog(st, "system"), ok |-> "false"]
  ELSE IF raw.kind = "json" THEN [state |-> appendLog(raw.doc, "system"), ok |-> "true"]
  ELSE [state |-> appendLog(st, "danger"), ok |-> "false"]

clearSave(st) == [state |-> appendLog(st, "system"), store |-> NoSave]

----------------------------------------------------------------------------
(* The day-advance pipeline                                                *)

\* A food step that rounds the happiness loss up (fault model for the
\* shortage arithmetic).
consume_food_rounded(prev) ==
  LET required_food == IF prev.policies["Food Rationing"].active
                       THEN (prev.people * 3) \div 4 ELSE prev.people
      bread == prev.inventory.bread
      shortage == required_food - bread
      next == [prev EXCEPT !.strength = prev.maxstrength, !.day = prev.day + 1]
  IN IF bread >= required_food
     THEN appendLog([next EXCEPT !.inventory.bread = bread - required_food], "event")
     ELSE appendLog([next EXCEPT !.inventory.bread = 0,
                                 !.happiness = clamp(prev.happiness - (shortage + 1) \div 2, 0, 100),
                                 !.people = Max(0, prev.people - shortage \div 5)], "warn")

\* A food step that skips a day (fault model for the day counter).
consume_food_skip(prev) ==
  appendLog([prev EXCEPT !.strength = prev.maxstrength, !.day = prev.day + 2], "event")

\* The food step of command_sleep: strength restored, day advanced, bread
\* consumed or the shortage penalties applied, one log entry.
consume_food(prev) ==
  LET required_food == IF prev.policies["Food Rationing"].active
                       THEN (prev.people * 3) \div 4 ELSE prev.people
      bread == prev.inventory.bread
      shortage == required_food - bread
      happiness_loss == shortage \div 2
      people_lost == shortage \div 5
      next == [prev EXCEPT !.strength = prev.maxstrength, !.day = prev.day + 1]
  IN IF bread >= required_food
     THEN appendLog([next EXCEPT !.inventory.bread = bread - required_food], "event")
     ELSE appendLog([next EXCEPT !.inventory.bread = 0,
                                 !.happiness = clamp(prev.happiness - happiness_loss, 0, 100),
                                 !.people = Max(0, prev.people - people_lost)], "warn")

\* A merchant who does not look at his last offer (fault model for the
\* anti-repeat rule).
merchant_event_repeating(cl, st) ==
  LET canWeapon == cl.currentEra \in DOMAIN MERCHANT_BY_ERA /\ cl.currentEra \notin cl.merchant_weapon_log
      offerTypes == {IF canWeapon /\ d <= 3 THEN "weapon" ELSE "unique" : d \in rand(1, 100)}
      pool == MERCHANT_BY_ERA[cl.currentEra]
      weapons == {[kind |-> "weapon", name |-> pool[i].name, bonus |-> pool[i].bonus,
                   effect |-> "none", value |-> 0,
                   price |-> discountedPrice(cl, pool[i].price)] : i \in 1..Len(pool)}
      uniques == {[kind |-> "unique", name |-> RARE_ITEMS[i].name, bonus |-> 0,
                   effect |-> RARE_ITEMS[i].effect, value |-> RARE_ITEMS[i].value,
                   price |-> discountedPrice(cl, RARE_ITEMS[i].price)] : i \in 1..Len(RARE_ITEMS)}
      logged == appendLog(st, "merchant")
  IN UNION { IF t = "weapon"
             THEN {[logged EXCEPT !.pendingMerchant = o, !.last_merchant_offer_type = "weapon"] : o \in weapons}
             ELSE {[logged EXCEPT !.pendingMerchant = o, !.last_merchant_offer_type = o.name] : o \in uniques}
             : t \in offerTypes }

\* merchant_event: reads the render snapshot cl, sets the pending offer.
merchant_event(cl, st) ==
  LET canWeapon == cl.currentEra \in DOMAIN MERCHANT_BY_ERA /\ cl.currentEra \notin cl.merchant_weapon_log
      drawn == {IF canWeapon /\ d <= 3 /\ cl.last_merchant_offer_type # "weapon"
                THEN "weapon" ELSE "unique" : d \in rand(1, 100)}
      offerTypes == {IF t = cl.last_merchant_offer_type THEN "unique" ELSE t : t \in drawn}
      pool == MERCHANT_BY_ERA[cl.currentEra]
      weapons == {[kind |-> "weapon", name |-> pool[i].name, bonus |-> pool[i].bonus,
                   effect |-> "none", value |-> 0,
                   price |-> discountedPrice(cl, pool[i].price)] : i \in 1..Len(pool)}
      rare == {i \in 1..Len(RARE_ITEMS) : RARE_ITEMS[i].name # cl.last_merchant_offer_type}
      uniques == {[kind |-> "unique", name |-> RARE_ITEMS[i].name, bonus |-> 0,
                   effect |-> RARE_ITEMS[i].effect, value |-> RARE_ITEMS[i].value,
                   price |-> discountedPrice(cl, RARE_ITEMS[i].price)] : i \in rare}
      logged == appendLog(st, "merchant")
  IN UNION { IF t = "weapon"
             THEN {[logged EXCEPT !.pendingMerchant = o, !.last_merchant_offer_type = "weapon"] : o \in weapons}
             ELSE {[logged EXCEPT !.pendingMerchant = o, !.last_merchant_offer_type = o.name] : o \in uniques}
             : t \in offerTypes }

\* random_event for a given roll: the set of states the draws can produce.
\* The "buildings" build reads the locked policies from the state being
\* built, the two other builds from the render snapshot cl.
random_event(v, cl, next, roll) ==
  IF roll <= 10 THEN
    {appendLog([next EXCEPT !.pmoney = @ + 1, !.money = Max(0, @ - loss),
                            !.happiness = clamp(@ - happinessLoss, 0, 100)], "warn")
       : loss \in rand(100, 300), happinessLoss \in rand(5, 15)}
  ELSE IF roll <= 20 THEN
    UNION { IF outcome <= 6
            THEN {appendLog([next EXCEPT !.money = @ + reward], "good") : reward \in rand(300, 800)}
            ELSE {appendLog([next EXCEPT !.people = Max(0, @ - casualties), !.money = Max(0, @ - loss)], "warn")
                    : loss \in rand(100, 400), casualties \in rand(3, 10)}
            : outcome \in rand(1, 10) }
  ELSE IF roll <= 30 THEN merchant_event(cl, next)
  ELSE IF roll <= 40 THEN
    UNION { IF c
            THEN {appendLog([next EXCEPT !.people = Max(0, @ - lost),
                                         !.inventory.bread = Max(0, @ - lost),
                                         !.happiness = clamp(@ - 10, 0, 100)], "warn") : lost \in rand(5, 15)}
            ELSE {appendLog([next EXCEPT !.inventory.bread = Max(0, @ - loss),
                                         !.happiness = clamp(@ - 5, 0, 100)], "warn") : loss \in rand(10, 20)}
            : c \in coin }
  ELSE IF roll <= 50 THEN {appendLog([next EXCEPT !.happiness = clamp(@ + 10, 0, 100)], "good")}
  ELSE IF roll <= 55 THEN
    { IF c THEN appendLog([next EXCEPT !.happiness = clamp(@ - 10, 0, 100), !.money = Max(0, @ - 200)], "warn")
           ELSE appendLog([next EXCEPT !.happiness = clamp(@ + 10, 0, 100), !.money = @ + 500], "good")
      : c \in coin }
  ELSE IF roll <= 60 THEN
    LET src == IF v = "buildings" THEN next ELSE cl
        locked == {k \in DOMAIN src.policies : src.policies[k].locked}
    IN IF locked # {}
       THEN {appendLog([next EXCEPT !.policies[key].locked = FALSE], "system") : key \in locked}
       ELSE {next}
  ELSE IF roll <= 70 THEN
    {appendLog([next EXCEPT !.happiness = clamp(@ + bonus, 0, 100)], "good") : bonus \in rand(10, 30)}
  ELSE IF roll <= 80 THEN
    {appendLog([next EXCEPT !.money = @ + coins], "good") : coins \in rand(200, 600)}
  ELSE {appendLog(next, "muted")}

BuildingDef(id) == CHOOSE d \in {BUILDING_OPTIONS[i] : i \in 1..Len(BUILDING_OPTIONS)} : d.id = id

\* applyBuildingBenefits: the accumulated daily deltas of the buildings.
RECURSIVE deltaMoney(_)
deltaMoney(bs) == IF bs = <<>> THEN 0 ELSE BuildingDef(Head(bs)).money + deltaMoney(Tail(bs))

RECURSIVE deltaBread(_)
deltaBread(bs) == IF bs = <<>> THEN 0 ELSE BuildingDef(Head(bs)).bread + deltaBread(Tail(bs))

RECURSIVE deltaHappy(_)
deltaHappy(bs) == IF bs = <<>> THEN 0 ELSE BuildingDef(Head(bs)).happiness + deltaHappy(Tail(bs))

applyBuildingBenefits(next) ==
  LET dm == deltaMoney(next.buildings)
      db == deltaBread(next.buildings)
      dh == deltaHappy(next.buildings)
      n1 == IF dm > 0 THEN appendLog([next EXCEPT !.money = @ + dm], "good") ELSE next
      n2 == IF db > 0 THEN appendLog([n1 EXCEPT !.inventory.bread = @ + db], "good") ELSE n1
  IN IF dh > 0 THEN appendLog([n2 EXCEPT !.happiness = clamp(@ + dh, 0, 100)], "good") ELSE n2

\* maybeTriggerChoiceEvent: ev = 0 is a roll >= 0.1, otherwise ev is the
\* event drawn; nothing happens while the render snapshot shows an event.
maybeTriggerChoiceEvent(cl, st, ev) ==
  IF cl.choiceEvent # NoChoice \/ ev = NoChoice THEN st
  ELSE appendLog([st EXCEPT !.choiceEvent = ev], "system")

\* command_sleep of the "buildings" build.
command_sleep_b(prev, roll, ev) ==
  {maybeTriggerChoiceEvent(prev, applyBuildingBenefits(t), ev)
     : t \in random_event("buildings", prev, consume_food(prev), roll)}

\* The in-line event of command_sleep in the "gated" and "main" builds.
inline_event(next, r) ==
  IF r <= 15 THEN {appendLog([next EXCEPT !.money = Max(0, @ - loss)], "warn") : loss \in rand(50, 200)}
  ELSE IF r <= 30 THEN {appendLog([next EXCEPT !.happiness = clamp(@ + g, 0, 100)], "good") : g \in rand(5, 15)}
  ELSE IF r <= 40 THEN {appendLog([next EXCEPT !.people = Min(next.maxpeople, @ + p)], "good") : p \in rand(3, 10)}
  ELSE {next}

\* The flavour line, the age warning and the death line.
daily_notices(next) ==
  LET n1 == appendLog(next, "muted")
      n2 == IF next.day \in {next.death_day - 10, next.death_day - 5} THEN appendLog(n1, "muted") ELSE n1
  IN IF next.day >= next.death_day THEN appendLog(n2, "danger") ELSE n2

universal_tax(next) ==
  IF next.policies["Universal Tax"].active
  THEN {appendLog([next EXCEPT !.money = @ + bonus, !.happiness = clamp(@ - 2, 0, 100)], "system")
          : bonus \in rand(20, 50)}
  ELSE {next}

charity_relief(next) ==
  IF next.policies["Charity Relief"].active /\ next.money >= 30
  THEN appendLog([next EXCEPT !.money = @ - 30, !.happiness = clamp(@ + 4, 0, 100)], "system")
  ELSE next

royal_festival(next) ==
  IF next.policies["Royal Festival"].active /\ next.day % 5 = 0
  THEN appendLog([next EXCEPT !.happiness = clamp(@ + 8, 0, 100)], "good")
  ELSE next

public_health(next) ==
  IF next.policies["Public Health"].active
  THEN {IF d <= 10 THEN appendLog(next, "good") ELSE [next EXCEPT !.happiness = clamp(@ + 1, 0, 100)]
          : d \in rand(1, 100)}
  ELSE {next}

open_borders(next) ==
  IF next.policies["Open Borders"].active
  THEN UNION { IF d <= 15 THEN {appendLog([next EXCEPT !.people = @ + influx], "good") : influx \in rand(2, 8)}
               ELSE {next} : d \in rand(1, 100) }
  ELSE {next}

electric_welfare(next) ==
  IF next.policies["Electric Welfare"].active /\ next.currentEra = "Electric Age"
  THEN {IF d <= 20 THEN appendLog(next, "good") ELSE next : d \in rand(1, 100)}
  ELSE {next}

\* The policy upkeep of command_sleep, skipped on and after the death day.
policy_upkeep(next) ==
  IF next.day >= next.death_day THEN {next}
  ELSE LET s1 == {royal_festival(charity_relief(x)) : x \in universal_tax(next)}
           s2 == UNION {public_health(x) : x \in s1}
           s3 == UNION {open_borders(x) : x \in s2}
       IN UNION {electric_welfare(x) : x \in s3}

\* command_sleep of the "gated" and "main" builds: r is the draw of the
\* in-line event, roll the draw of random_event, which runs last.
command_sleep_m(v, prev, r, roll) ==
  LET s1 == {daily_notices(x) : x \in inline_event(consume_food(prev), r)}
      s2 == UNION {policy_upkeep(x) : x \in s1}
  IN UNION {random_event(v, prev, x, roll) : x \in s2}

----------------------------------------------------------------------------
(* Kingdom commands                                                        *)

cheapestBuildCost == 200

can_tax(st) == st.happiness >= 1 /\ st.strength >= 1

can_pay(st) == st.people >= 1 /\ st.money >= 5 /\ st.strength >= 1

can_expand(st) == st.number < 6 /\ st.money >= st.exmoney /\ st.strength >= 1

\* A fight gate that lets an exhausted ruler fight (fault model for the
\* strength range).
can_fight_exhausted(st) == TRUE

can_fight(st) == st.strength >= 1

can_build(st) == Len(st.buildings) < st.maxBuildings /\ st.money >= cheapestBuildCost /\ st.strength >= 1

\* The successful tax updater, for a draw of delta and of the income.
taxed(prev, delta, income) ==
  [prev EXCEPT !.happiness = clamp(@ - delta, 0, 100), !.money = @ + income, !.strength = Max(0, @ - 1)]

command_tax_b(st) ==
  IF ~can_tax(st) THEN {st}
  ELSE {appendLog(IF st.happiness < 1 THEN appendLog([st EXCEPT !.money = 0], "danger")
                  ELSE taxed(st, delta, income), "warn")
          : delta \in rand(1, 5), income \in rand(25, 50)}

command_tax_g(st) ==
  IF ~can_tax(st) THEN {st}
  ELSE {appendLog(taxed(st, delta, income), "warn") : delta \in rand(1, 5), income \in rand(25, 50)}

command_tax_m(st) ==
  IF st.happiness < 1 THEN {[appendLog(st, "danger") EXCEPT !.money = 0]}
  ELSE {appendLog(taxed(st, delta, income), "warn") : delta \in rand(1, 5), income \in rand(25, 50)}

command_tax(v, st) ==
  CASE v = "buildings" -> command_tax_b(st)
    [] v = "gated" -> command_tax_g(st)
    [] OTHER -> command_tax_m(st)

command_pay_b(st) ==
  IF ~can_pay(st) THEN st
  ELSE appendLog(IF st.people < 1 THEN appendLog([st EXCEPT !.money = 0], "danger")
                 ELSE [st EXCEPT !.money = @ - 5, !.happiness = clamp(@ + 5, 0, 100),
                                 !.strength = Max(0, @ - 1)], "good")

command_pay_g(st) ==
  IF ~can_pay(st) THEN st
  ELSE appendLog([st EXCEPT !.money = @ - 5, !.happiness = clamp(@ + 5, 0, 100),
                            !.strength = Max(0, @ - 1)], "good")

command_pay_m(st) ==
  IF st.people < 1 THEN [appendLog(st, "danger") EXCEPT !.money = 0]
  ELSE appendLog([st EXCEPT !.money = Max(0, @ - 5), !.happiness = clamp(@ + 5, 0, 100),
                            !.strength = Max(0, @ - 1)], "good")

command_pay(v, st) ==
  CASE v = "buildings" -> command_pay_b(st)
    [] v = "gated" -> command_pay_g(st)
    [] OTHER -> command_pay_m(st)

\* An expansion whose next price grows by the first price instead of
\* doubling (fault model for the expansion cost).
expanded_linear(prev) ==
  LET number == prev.number + 1
      currentEra == IF number + 1 \in 1..Len(ERA_SEQ) THEN ERA_SEQ[number + 1] ELSE prev.currentEra
  IN appendLog([prev EXCEPT !.money = @ - prev.exmoney, !.exmoney = @ + 5000, !.maxpeople = @ * 2,
                            !.number = number, !.currentEra = currentEra,
                            !.maxstrength = Max(@, 4), !.strength = Max(0, @ - 1)], "good")

\* The successful expand updater (without the building slots).
expanded(prev) ==
  LET number == prev.number + 1
      currentEra == IF number + 1 \in 1..Len(ERA_SEQ) THEN ERA_SEQ[number + 1] ELSE prev.currentEra
  IN appendLog([prev EXCEPT !.money = @ - prev.exmoney, !.exmoney = @ * 2, !.maxpeople = @ * 2,
                            !.number = number, !.currentEra = currentEra,
                            !.maxstrength = Max(@, 4), !.strength = Max(0, @ - 1)], "good")

command_expand_b(st) ==
  IF ~can_expand(st) THEN appendLog(st, "muted")
  ELSE [expanded(st) EXCEPT !.maxBuildings = Min(@ + 1, 5)]

command_expand_g(st) ==
  IF ~can_expand(st) THEN appendLog(st, "muted") ELSE expanded(st)

command_expand_m(st) ==
  IF st.number >= 6 THEN appendLog(st, "muted")
  ELSE IF st.money < st.exmoney THEN appendLog(st, "muted")
  ELSE expanded(st)

command_expand(v, st) ==
  CASE v = "buildings" -> command_expand_b(st)
    [] v = "gated" -> command_expand_g(st)
    [] OTHER -> command_expand_m(st)

BuildingIds == {BUILDING_OPTIONS[i].id : i \in 1..Len(BUILDING_OPTIONS)}

\* buildBuilding without the `can.build` gate (fault model for the slots).
buildBuildingUngated(st, optionId) ==
  IF optionId \notin BuildingIds THEN st
  ELSE LET def == BuildingDef(optionId)
           next == [st EXCEPT !.money = @ - def.cost, !.strength = Max(0, @ - 1),
                              !.buildings = Append(@, def.id)]
       IN IF st.money < def.cost THEN appendLog(st, "warn")
          ELSE IF def.maxstrength # 0
               THEN appendLog(appendLog([next EXCEPT !.maxstrength = @ + def.maxstrength], "good"), "system")
               ELSE appendLog(next, "system")

\* buildBuilding ("buildings" build only).
buildBuilding(st, optionId) ==
  IF optionId \notin BuildingIds THEN st
  ELSE IF ~can_build(st) THEN st
  ELSE LET def == BuildingDef(optionId)
           next == [st EXCEPT !.money = @ - def.cost, !.strength = Max(0, @ - 1),
                              !.buildings = Append(@, def.id)]
       IN IF st.money < def.cost THEN appendLog(st, "warn")
          ELSE IF def.maxstrength # 0
               THEN appendLog(appendLog([next EXCEPT !.maxstrength = @ + def.maxstrength], "good"), "system")
               ELSE appendLog(next, "system")

\* resolveChoice ("buildings" build only): opt is the option's effect.
resolveChoice(prev, eff) ==
  LET n1 == IF eff.money # 0 THEN [prev EXCEPT !.money = Max(0, @ + eff.money)] ELSE prev
      n2 == IF eff.bread # 0 THEN [n1 EXCEPT !.inventory.bread = Max(0, @ + eff.bread)] ELSE n1
      n3 == IF eff.happiness # 0 THEN [n2 EXCEPT !.happiness = clamp(@ + eff.happiness, 0, 100)] ELSE n2
      n4 == IF eff.people # 0 THEN [n3 EXCEPT !.people = Max(0, @ + eff.people)] ELSE n3
      n5 == IF eff.strength # 0 THEN [n4 EXCEPT !.strength = Max(0, @ + eff.strength)] ELSE n4
      n6 == IF eff.maxstrength # 0 THEN [n5 EXCEPT !.maxstrength = @ + eff.maxstrength] ELSE n5
  IN appendLog([n6 EXCEPT !.choiceEvent = NoChoice], IF eff.money < 0 THEN "warn" ELSE "good")

\* Clicking outside the choice overlay drops the event.
dismissChoice(prev) == [prev EXCEPT !.choiceEvent = NoChoice]

\* A policy button that locks what it toggles (fault model for the policy
\* locks).
togglePolicyLocking(st, name) ==
  appendLog([st EXCEPT !.policies[name] = [locked |-> TRUE, active |-> ~st.policies[name].active]], "system")

\* The policy button (disabled while the policy is locked): data is the
\* policy as the render snapshot shows it.
togglePolicy(st, name) ==
  LET data == st.policies[name]
  IN appendLog([st EXCEPT !.policies[name] = [data EXCEPT !.active = ~data.active]], "system")

----------------------------------------------------------------------------
(* Shop and merchant                                                       *)

\* A shop that sells on credit (fault model for the treasury floor).
buyStackOnCredit(st, key, price, qty) ==
  IF qty <= 0 THEN st
  ELSE appendLog([st EXCEPT !.money = @ - price * qty, !.inventory[key] = @ + qty], "good")

buyStack(st, key, price, qty) ==
  LET total == price * qty
  IN IF qty <= 0 THEN st
     ELSE IF st.money < total THEN appendLog(st, "warn")
     ELSE appendLog([st EXCEPT !.money = @ - total, !.inventory[key] = @ + qty], "good")

buyWeapon(st, era, wid) ==
  LET found == {w \in WEAPONS : w.era = era /\ w.id = wid}
      w == CHOOSE x \in found : TRUE
  IN IF found = {} THEN st
     ELSE IF wid <= st.owned_weapon[era] THEN appendLog(st, "muted")
     ELSE IF st.money < w.price THEN appendLog(st, "warn")
     ELSE appendLog([st EXCEPT !.money = @ - w.price, !.owned_weapon[era] = wid,
                               !.minDmg = 5 + w.damage, !.maxDmg = 15 + w.damage], "good")

\* A purchase that forgets to close the offer (fault model for the merchant
\* purchase).
buyMerchantKeepsOffer(st) ==
  LET p == st.pendingMerchant
  IN IF p = NoOffer THEN st
     ELSE IF st.money < p.price THEN appendLog(st, "warn")
     ELSE appendLog([st EXCEPT !.money = @ - p.price,
                               !.merchant_relationship = Min(5, @ + 1)], "merchant")

buyMerchant(st) ==
  LET p == st.pendingMerchant
  IN IF p = NoOffer THEN st
     ELSE IF st.money < p.price THEN appendLog(st, "warn")
     ELSE IF p.kind = "weapon"
     THEN appendLog([st EXCEPT !.money = @ - p.price, !.minDmg = 5 + p.bonus, !.maxDmg = 15 + p.bonus,
                               !.merchant_weapon_log = @ \cup {st.currentEra},
                               !.merchant_relationship = Min(5, @ + 1),
                               !.pendingMerchant = NoOffer], "merchant")
     ELSE appendLog([st EXCEPT !.money = @ - p.price,
                               !.happiness = IF p.effect = "happiness" THEN clamp(@ + p.value, 0, 100) ELSE @,
                               !.maxstrength = IF p.effect = "maxstrength" THEN @ + p.value ELSE @,
                               !.merchant_relationship = Min(5, @ + 1),
                               !.pendingMerchant = NoOffer], "merchant")

\* The Dismiss button of the merchant tab.
dismissMerchant(prev) == [prev EXCEPT !.pendingMerchant = NoOffer]

----------------------------------------------------------------------------
(* Combat                                                                  *)

\* A fight that starts on the sub-state of the fight before it (fault model
\* for the reset of start-fight).
startFight_stale(st, diff) ==
  IF ~can_fight(st) THEN appendLog(st, "muted")
  ELSE [st EXCEPT !.strength = @ - 1, !.ehealth = ENEMY[diff].health, !.phealth = 100,
                  !.fight.cfg = ENEMY[diff]]

startFight_g(st, diff) ==
  IF ~can_fight(st) THEN appendLog(st, "muted")
  ELSE [st EXCEPT !.strength = @ - 1, !.ehealth = ENEMY[diff].health, !.phealth = 100,
                  !.fight = [cfg |-> ENEMY[diff], stunned |-> FALSE, poisonTurns |-> 0, over |-> FALSE]]

\* The "main" build has no gate, no strength cost and no `over` field (the
\* model keeps the field at FALSE).
startFight_m(st, diff) ==
  [st EXCEPT !.ehealth = ENEMY[diff].health, !.phealth = 100,
             !.fight = [cfg |-> ENEMY[diff], stunned |-> FALSE, poisonTurns |-> 0, over |-> FALSE]]

startFight(v, st, diff) == IF Gated(v) THEN startFight_g(st, diff) ELSE startFight_m(st, diff)

\* updateFightBars: the poison tick.  The "buildings" build skips it without
\* a fight or after the fight is over, the "gated" build without a fight,
\* the "main" build never.
updateFightBars(v, prev) ==
  IF (Gated(v) /\ prev.fight.cfg = NoCfg) \/ (v = "buildings" /\ prev.fight.over) THEN prev
  ELSE IF prev.fight.poisonTurns > 0 /\ prev.ehealth > 0
       THEN [prev EXCEPT !.ehealth = Max(0, @ - 5), !.fight.poisonTurns = @ - 1]
       ELSE prev

\* Potion branches whose health potion restores half of the health only
\* (fault model for the heal action).
use_potion_half(v, st, action) ==
  CASE action = "heal" ->
         updateFightBars(v, IF st.inventory.hpotion > 0
                            THEN [st EXCEPT !.phealth = 50, !.inventory.hpotion = @ - 1] ELSE st)
    [] action = "lightning" ->
         updateFightBars(v, IF st.inventory.lightning_potion > 0
                            THEN [st EXCEPT !.inventory.lightning_potion = @ - 1] ELSE st)
    [] action = "sleep" ->
         updateFightBars(v, IF st.inventory.sleep_potion > 0
                            THEN [st EXCEPT !.inventory.sleep_potion = @ - 1] ELSE st)
    [] OTHER ->
         updateFightBars(v, IF st.inventory.poison_potion > 0
                            THEN [st EXCEPT !.fight.poisonTurns = 3, !.inventory.poison_potion = @ - 1] ELSE st)

\* Potion branches whose poison adds three turns to the turns still left
\* (fault model for the poison counter).
use_potion_additive(v, st, action) ==
  CASE action = "heal" ->
         updateFightBars(v, IF st.inventory.hpotion > 0
                            THEN [st EXCEPT !.phealth = 100, !.inventory.hpotion = @ - 1] ELSE st)
    [] action = "lightning" ->
         updateFightBars(v, IF st.inventory.lightning_potion > 0
                            THEN [st EXCEPT !.inventory.lightning_potion = @ - 1] ELSE st)
    [] action = "sleep" ->
         updateFightBars(v, IF st.inventory.sleep_potion > 0
                            THEN [st EXCEPT !.inventory.sleep_potion = @ - 1] ELSE st)
    [] OTHER ->
         updateFightBars(v, IF st.inventory.poison_potion > 0
                            THEN [st EXCEPT !.fight.poisonTurns = @ + 3, !.inventory.poison_potion = @ - 1] ELSE st)

\* Potion branches that drink without looking at the stock (fault model for
\* the inventory floor).
use_potion_unchecked(v, st, action) ==
  CASE action = "heal" -> updateFightBars(v, [st EXCEPT !.phealth = 100, !.inventory.hpotion = @ - 1])
    [] action = "lightning" -> updateFightBars(v, [st EXCEPT !.inventory.lightning_potion = @ - 1])
    [] action = "sleep" -> updateFightBars(v, [st EXCEPT !.inventory.sleep_potion = @ - 1])
    [] OTHER -> updateFightBars(v, [st EXCEPT !.fight.poisonTurns = 3, !.inventory.poison_potion = @ - 1])

Actions == {"strike", "block", "heal", "dmg_pot", "lightning", "sleep", "poison"}

\* The potion branches of playerAction that return before the enemy's turn.
use_potion(v, st, action) ==
  CASE action = "heal" ->
         updateFightBars(v, IF st.inventory.hpotion > 0
                            THEN [st EXCEPT !.phealth = 100, !.inventory.hpotion = @ - 1] ELSE st)
    [] action = "lightning" ->
         updateFightBars(v, IF st.inventory.lightning_potion > 0
                            THEN [st EXCEPT !.inventory.lightning_potion = @ - 1] ELSE st)
    [] action = "sleep" ->
         updateFightBars(v, IF st.inventory.sleep_potion > 0
                            THEN [st EXCEPT !.inventory.sleep_potion = @ - 1] ELSE st)
    [] OTHER ->
         updateFightBars(v, IF st.inventory.poison_potion > 0
                            THEN [st EXCEPT !.fight.poisonTurns = 3, !.inventory.poison_potion = @ - 1] ELSE st)

\* The end check of the builds with fight.over.
settle_g(prev, cfg) ==
  IF prev.fight.cfg = NoCfg THEN {prev}
  ELSE IF prev.ehealth <= 0
  THEN {[prev EXCEPT !.money = @ + reward, !.wfight = @ + 1, !.fight.over = TRUE]
          : reward \in rand(cfg.coins_min, cfg.coins_max)}
  ELSE IF prev.phealth <= 0 THEN {[prev EXCEPT !.lfight = @ + 1, !.fight.over = TRUE]}
  ELSE {prev}

\* The end check of the "main" build (`post`): nothing marks the fight over.
settle_m(prev, cfg) ==
  IF prev.ehealth <= 0
  THEN {[prev EXCEPT !.money = @ + reward, !.wfight = @ + 1] : reward \in rand(cfg.coins_min, cfg.coins_max)}
  ELSE IF prev.phealth <= 0 THEN {[prev EXCEPT !.lfight = @ + 1]}
  ELSE {prev}

\* An exchange whose enemy blow is not floored at 0 health (fault model for
\* the health range).
exchange_unfloored(v, cl, st, pdamage) ==
  LET cfg == cl.fight.cfg
      hit == IF pdamage >= 0 THEN [st EXCEPT !.ehealth = Max(0, @ - pdamage)] ELSE st
      turns == IF cl.fight.stunned THEN {[hit EXCEPT !.fight.stunned = FALSE]}
               ELSE {[hit EXCEPT !.phealth = @ - (IF pdamage < 0 THEN Max(0, raw + pdamage) ELSE raw)]
                       : raw \in rand(cfg.damage_min, cfg.damage_max)}
  IN UNION {IF Gated(v) THEN settle_g(updateFightBars(v, t), cfg) ELSE settle_m(updateFightBars(v, t), cfg)
              : t \in turns}

\* The part of playerAction after the action's own branch: the player's
\* damage, the enemy's turn (read from the render snapshot cl), the poison
\* tick and the end check.
exchange(v, cl, st, pdamage) ==
  LET cfg == cl.fight.cfg
      hit == IF pdamage >= 0 THEN [st EXCEPT !.ehealth = Max(0, @ - pdamage)] ELSE st
      turns == IF cl.fight.stunned THEN {[hit EXCEPT !.fight.stunned = FALSE]}
               ELSE {[hit EXCEPT !.phealth = Max(0, @ - (IF pdamage < 0 THEN Max(0, raw + pdamage) ELSE raw))]
                       : raw \in rand(cfg.damage_min, cfg.damage_max)}
  IN UNION {IF Gated(v) THEN settle_g(updateFightBars(v, t), cfg) ELSE settle_m(updateFightBars(v, t), cfg)
              : t \in turns}

playerAction(v, st, action) ==
  IF st.fight.cfg = NoCfg \/ (Gated(v) /\ st.fight.over) THEN {st}
  ELSE CASE action = "strike" ->
              UNION {exchange(v, st, st, pdamage) : pdamage \in rand(st.minDmg, st.maxDmg)}
         [] action = "block" ->
              UNION {exchange(v, st, st, -blk) : blk \in rand(10, 30)}
         [] action = "dmg_pot" ->
              IF st.inventory.dpotion > 0
              THEN UNION {exchange(v, st, [st EXCEPT !.inventory.dpotion = @ - 1], hit + 10)
                            : hit \in rand(st.minDmg, st.maxDmg)}
              ELSE {st}
         [] OTHER -> {use_potion(v, st, action)}

----------------------------------------------------------------------------
(* The state machine: one step is one handler invocation                   *)

\* One roll in every bucket of random_event, one draw in every bucket of the
\* in-line event, and the draws of maybeTriggerChoiceEvent.
EventRolls == {10, 20, 30, 40, 50, 55, 60, 70, 80, 100}

InlineRolls == {15, 30, 40, 100}

ChoiceDraws == 0..Len(CHOICE_EVENTS)

\* The catalog price of a shop item (the shop rows pass p.price, f.price).
PriceOf(key) == (CHOOSE x \in POTIONS \cup FOOD : x.var = key).price

NewGame == {createInitialState(dd) : dd \in rand(80, 150)}

\* The commands that cost strength.
Toil == {"tax", "pay", "expand", "build", "startFight"}

\* The command takes its successful branch in state st of build v.
succeeds(v, st, cmd, arg) ==
  CASE cmd = "tax" -> IF Gated(v) THEN can_tax(st) ELSE st.happiness >= 1
    [] cmd = "pay" -> IF Gated(v) THEN can_pay(st) ELSE st.people >= 1
    [] cmd = "expand" -> IF Gated(v) THEN can_expand(st) ELSE st.number < 6 /\ st.money >= st.exmoney
    [] cmd = "build" -> arg[1] \in BuildingIds /\ can_build(st) /\ st.money >= BuildingDef(arg[1]).cost
    [] cmd = "startFight" -> IF Gated(v) THEN can_fight(st) ELSE TRUE
    [] OTHER -> FALSE

\* The history of the day: a sleep notes the strength it leaves and starts
\* the count again, a successful command of Toil adds 1 (the count stops
\* one above the strength noted).
tally(v, st, nx, cmd, arg, h) ==
  IF cmd = "sleep" THEN [rested |-> nx.strength, done |-> 0]
  ELSE IF succeeds(v, st, cmd, arg) THEN [h EXCEPT !.done = Min(@ + 1, h.rested + 1)]
  ELSE h

\* A browser without a save.
Init ==
  /\ variant \in Variants
  /\ s \in NewGame
  /\ last = [cmd |-> "init", arg |-> <<>>]
  /\ store = NoSave
  /\ returned = "undefined"
  /\ toil = [rested |-> s.strength, done |-> 0]

\* A handler other than save, load and clearSave returns nothing and leaves
\* the storage alone.
Invoke(cmd, arg) ==
  /\ last' = [cmd |-> cmd, arg |-> arg]
  /\ returned' = "undefined"
  /\ toil' = tally(variant, s, s', cmd, arg, toil)
  /\ UNCHANGED <<variant, store>>

\* A bound L on the exploration: logging commands are taken while the log
\* has fewer than L.logs entries, sleep while day < L.day, fight commands
\* while fewer than L.fights fights are settled.
Budget(L) == Len(s.logs) < L.logs

\* The answer to an overlay that the night has just opened is always taken.
Reply(L, open) == Budget(L) \/ (last.cmd = "sleep" /\ open)

\* Sleep with the in-line event draw in R, the random_event roll in Rolls and
\* the choice-event draw in Evs.
Sleep(L, R, Rolls, Evs) ==
  /\ Budget(L) /\ s.day < L.day
  /\ \/ /\ variant = "buildings"
        /\ \E roll \in Rolls, ev \in Evs : s' \in command_sleep_b(s, roll, ev)
     \/ /\ variant # "buildings"
        /\ \E r \in R, roll \in Rolls : s' \in command_sleep_m(variant, s, r, roll)
  /\ Invoke("sleep", <<>>)

Tax(L) == Budget(L) /\ s' \in command_tax(variant, s) /\ Invoke("tax", <<>>)

Pay(L) == Budget(L) /\ s' = command_pay(variant, s) /\ Invoke("pay", <<>>)

Expand(L) == Budget(L) /\ s' = command_expand(variant, s) /\ Invoke("expand", <<>>)

Build(L, Ids) ==
  /\ Budget(L) /\ variant = "buildings"
  /\ \E id \in Ids : s' = buildBuilding(s, id) /\ Invoke("build", <<id>>)

ResolveChoice(L) ==
  /\ Reply(L, TRUE) /\ variant = "buildings" /\ s.choiceEvent # NoChoice
  /\ \E i \in 1..2 : s' = resolveChoice(s, CHOICE_EVENTS[s.choiceEvent][i]) /\ Invoke("resolveChoice", <<i>>)

DismissChoice ==
  /\ variant = "buildings" /\ s.choiceEvent # NoChoice
  /\ s' = dismissChoice(s)
  /\ Invoke("dismissChoice", <<>>)

TogglePolicy(L) ==
  /\ Budget(L)
  /\ \E name \in DOMAIN s.policies :
       ~s.policies[name].locked /\ s' = togglePolicy(s, name) /\ Invoke("togglePolicy", <<name>>)

BuyStack(L, Orders) ==
  /\ Budget(L)
  /\ \E o \in Orders : s' = buyStack(s, o[1], PriceOf(o[1]), o[2]) /\ Invoke("buyStack", o)

BuyWeapon(L, Orders) ==
  /\ Budget(L)
  /\ \E o \in Orders : s' = buyWeapon(s, o[1], o[2]) /\ Invoke("buyWeapon", o)

BuyMerchant(L) == Reply(L, s.pendingMerchant # NoOffer) /\ s' = buyMerchant(s) /\ Invoke("buyMerchant", <<>>)

DismissMerchant ==
  /\ s.pendingMerchant # NoOffer
  /\ s' = dismissMerchant(s)
  /\ Invoke("dismissMerchant", <<>>)

Save(L) ==
  /\ Budget(L)
  /\ s' = save(s).state /\ store' = save(s).store
  /\ last' = [cmd |-> "save", arg |-> <<>>] /\ returned' = "undefined" /\ UNCHANGED <<variant, toil>>

Load(L) ==
  /\ Budget(L)
  /\ s' = load(store, s).state /\ returned' = load(store, s).ok
  /\ last' = [cmd |-> "load", arg |-> <<>>] /\ UNCHANGED <<variant, store, toil>>

ClearSave(L) ==
  /\ Budget(L)
  /\ s' = clearSave(s).state /\ store' = clearSave(s).store
  /\ last' = [cmd |-> "clearSave", arg |-> <<>>] /\ returned' = "undefined" /\ UNCHANGED <<variant, toil>>

StartFight(L, Diffs) ==
  /\ Budget(L) /\ s.wfight + s.lfight < L.fights
  /\ \E diff \in Diffs : s' = startFight(variant, s, diff) /\ Invoke("startFight", <<diff>>)

PlayerAction(L, Acts) ==
  /\ s.wfight + s.lfight < L.fights
  /\ \E a \in Acts : s' \in playerAction(variant, s, a) /\ Invoke("playerAction", <<a>>)

----------------------------------------------------------------------------
(* The kingdom: every command of the day loop                              *)

MaxDay == 3

MaxLogs == 3

MaxFights == 1

Kingdom == [logs |-> MaxLogs, day |-> MaxDay, fights |-> MaxFights]

\* A stack of bread for one day, and a purchase that empties the treasury.
KingdomOrders == {<<"bread", 40>>, <<"meat", 19999>>}

\* An affordable weapon and one that costs more than the starting money.
KingdomWeapons == {<<1, 1>>, <<6, 5>>}

Next ==
  \/ Sleep(Kingdom, InlineRolls, EventRolls, ChoiceDraws)
  \/ Tax(Kingdom)
  \/ Pay(Kingdom)
  \/ Expand(Kingdom)
  \/ Build(Kingdom, BuildingIds)
  \/ ResolveChoice(Kingdom)
  \/ TogglePolicy(Kingdom)
  \/ BuyStack(Kingdom, KingdomOrders)
  \/ BuyWeapon(Kingdom, KingdomWeapons)
  \/ BuyMerchant(Kingdom)
  \/ StartFight(Kingdom, {"EASY"})

Spec == Init /\ [][Next]_vars

----------------------------------------------------------------------------
(* Properties of the kingdom                                               *)

\* C1: in every state reachable by the commands, under any random draws,
\* happiness is an integer between 0 and 100.
HappinessInRange == s.happiness \in 0..100

\* Two hungry nights with a famine or a protest bring happiness down to 0.
HappinessAtFloor == s.happiness = 0 /\ last.cmd = "sleep"

\* C2: in every reachable state 0 <= strength <= maxstrength.
StrengthInRange == 0 <= s.strength /\ s.strength <= s.maxstrength

\* The ruler is exhausted after three taxes.
StrengthSpent == s.strength = 0 /\ last.cmd = "tax" /\ s.maxstrength = 3

\* C3: in every reachable state money >= 0 and people >= 0.
TreasuryAndPeopleNonNegative == s.money >= 0 /\ s.people >= 0

\* The treasury is emptied by a purchase and the loss of the night after it.
TreasuryAtFloor == s.money = 0 /\ last.cmd = "sleep" /\ s.inventory.meat > 0

\* C6: every sleep increases day by exactly 1 and no other command changes
\* day.
DayAdvancesBySleepOnly ==
  [][ /\ last'.cmd = "sleep" => s'.day = s.day + 1
      /\ last'.cmd # "sleep" => s'.day = s.day ]_vars

\* The second night has passed.
SecondNight == s.day = 3 /\ last.cmd = "sleep"

----------------------------------------------------------------------------
(* The arena: one fight, blow by blow                                      *)

ArenaLogs == 1

Arena == [logs |-> ArenaLogs, day |-> 1, fights |-> MaxFights]

ArenaOrders == {<<"hpotion", 1>>, <<"poison_potion", 1>>}

NextFight ==
  \/ BuyStack(Arena, ArenaOrders)
  \/ StartFight(Arena, {"EASY", "HARD"})
  \/ PlayerAction(Arena, {"strike", "block", "heal", "poison"})

SpecFight == Init /\ [][NextFight]_vars

\* C5: once a fight has been started, phealth is in 0..100 and ehealth is in
\* 0..fight.cfg.health.
HealthInRange ==
  s.fight.cfg # NoCfg => s.phealth \in 0..100 /\ s.ehealth \in 0..s.fight.cfg.health

\* The player has been beaten down to 0 health.
PlayerDefeated == s.fight.cfg # NoCfg /\ s.phealth = 0 /\ s.lfight = 1

----------------------------------------------------------------------------
(* The stores: potions bought and drunk, bread eaten and lost              *)

StoreLogs == 2

StoreDays == 2

Stores == [logs |-> StoreLogs, day |-> StoreDays, fights |-> MaxFights]

\* One flask of every potion a fight action drinks.
StoreOrders == {<<"hpotion", 1>>, <<"dpotion", 1>>, <<"lightning_potion", 1>>,
                <<"sleep_potion", 1>>, <<"poison_potion", 1>>}

\* The nights of this specification are disaster nights (famine or flood).
NextStores ==
  \/ Sleep(Stores, {100}, {40}, {0})
  \/ BuyStack(Stores, StoreOrders)
  \/ StartFight(Stores, {"EASY"})
  \/ PlayerAction(Stores, {"heal", "dmg_pot", "lightning", "sleep", "poison"})

SpecStores == Init /\ [][NextStores]_vars

\* C4: all 11 inventory counters are >= 0 in every reachable state.
InventoryNonNegative == \A k \in InventoryKeys : s.inventory[k] >= 0

\* The only flask of poison has been thrown in a fight.
LastFlaskUsed ==
  /\ last.cmd = "playerAction" /\ last.arg = <<"poison">>
  /\ s.inventory.poison_potion = 0 /\ s.fight.poisonTurns > 0

----------------------------------------------------------------------------
(* The pantry: the food step of one calm night, for every larder           *)

\* The food step reads people, bread, happiness and the Food Rationing flag
\* of the state and nothing else; the pantry draws them.
FoodPeople == 50

FoodBread == {0, 1, 9, 10, 25, 37, 38, 50}

FoodMoods == {0, 3, 50, 100}

Larder(p, b, h, rationing) ==
  [createInitialState(80) EXCEPT !.people = p, !.inventory.bread = b, !.happiness = h,
                                 !.policies["Food Rationing"] = [locked |-> FALSE, active |-> rationing]]

InitFood ==
  /\ variant \in Variants
  /\ s \in {Larder(p, b, h, a) : p \in 0..FoodPeople, b \in FoodBread, h \in FoodMoods, a \in BOOLEAN}
  /\ last = [cmd |-> "init", arg |-> <<>>]
  /\ store = NoSave
  /\ returned = "undefined"
  /\ toil = [rested |-> s.strength, done |-> 0]

Pantry == [logs |-> 1, day |-> 2, fights |-> 0]

\* A calm night: no in-line event, a calm random event, no choice event.
NextFood == Sleep(Pantry, {100}, {100}, {0})

SpecFood == InitFood /\ [][NextFood]_vars

\* C7: the food step of sleep requires p loaves, or floor(3p/4) under Food
\* Rationing; with b >= required it leaves b - required loaves and people and
\* happiness as they were; otherwise it leaves no bread, happiness
\* clamp(happiness - floor((required - b) / 2), 0, 100) and
\* max(0, p - floor((required - b) / 5)) people.
FoodStepArithmetic ==
  [][ last'.cmd = "sleep" =>
        LET p == s.people
            b == s.inventory.bread
            required == IF s.policies["Food Rationing"].active THEN (3 * p) \div 4 ELSE p
            unhappy == s.happiness - ((required - b) \div 2)
            fed == p - ((required - b) \div 5)
        IN IF b >= required
           THEN /\ s'.inventory.bread = b - required
                /\ s'.people = p
                /\ s'.happiness = s.happiness
           ELSE /\ s'.inventory.bread = 0
                /\ s'.happiness = (IF unhappy < 0 THEN 0 ELSE IF unhappy > 100 THEN 100 ELSE unhappy)
                /\ s'.people = (IF fed < 0 THEN 0 ELSE fed) ]_vars

\* 50 people and 10 loaves: 20 happiness and 8 people are lost.
HungryNight ==
  /\ last.cmd = "sleep" /\ s.day = 2
  /\ s.people = 42 /\ s.happiness = 30 /\ s.inventory.bread = 0
  /\ ~s.policies["Food Rationing"].active

----------------------------------------------------------------------------
(* The market: a merchant every night                                      *)

MarketDays == 5

MarketLogs == 16

Market == [logs |-> MarketLogs, day |-> MarketDays, fights |-> 0]

\* Every night of this specification brings the merchant (roll 21..30).
NextMarket ==
  \/ Sleep(Market, {100}, {30}, {0})
  \/ BuyMerchant(Market)

SpecMarket == Init /\ [][NextMarket]_vars

\* The catalog price of the item an offer names.
CatalogPrice(offer) ==
  LET items == {RARE_ITEMS[i] : i \in 1..Len(RARE_ITEMS)}
                 \cup UNION {{MERCHANT_BY_ERA[e][i] : i \in 1..Len(MERCHANT_BY_ERA[e])} : e \in EraNames}
  IN (CHOOSE x \in items : x.name = offer.name).price

\* C10: every merchant offer is priced base - floor(base * 6r / 100), where
\* r is merchant_relationship when the offer is generated, and r is in 0..5.
\* (merchant_relationship only changes when the pending offer is bought, so
\* while an offer is pending it is the r of its generation.)
OfferPrice ==
  s.pendingMerchant # NoOffer =>
    LET base == CatalogPrice(s.pendingMerchant)
        r == s.merchant_relationship
    IN /\ r \in 0..5
       /\ s.pendingMerchant.price = base - ((base * 6 * r) \div 100)

\* After three purchases the Ancient Scroll (1000 coins) is offered for 820.
ScrollAtThirdTier ==
  /\ s.merchant_relationship = 3
  /\ s.pendingMerchant.name = "Ancient Scroll" /\ s.pendingMerchant.price = 820

----------------------------------------------------------------------------
(* Refusals                                                                *)

\* The command last' = l is invoked in state st of build v with too little
\* money, strength, people or building slots for it (the resources the
\* handler of that build tests before it acts).
PreconditionUnmet(v, st, l) ==
  CASE l.cmd = "tax" -> Gated(v) /\ st.strength < 1
    [] l.cmd = "pay" -> st.people < 1 \/ (Gated(v) /\ (st.money < 5 \/ st.strength < 1))
    [] l.cmd = "expand" -> st.money < st.exmoney \/ (Gated(v) /\ st.strength < 1)
    [] l.cmd = "build" ->
         \/ Len(st.buildings) >= st.maxBuildings
         \/ st.money < BuildingDef(l.arg[1]).cost
         \/ st.strength < 1
    [] l.cmd = "buyStack" -> st.money < PriceOf(l.arg[1]) * l.arg[2]
    [] l.cmd = "buyWeapon" ->
         \E w \in WEAPONS : /\ w.era = l.arg[1] /\ w.id = l.arg[2]
                            /\ w.id > st.owned_weapon[w.era] /\ st.money < w.price
    [] l.cmd = "buyMerchant" -> st.pendingMerchant # NoOffer /\ st.money < st.pendingMerchant.price
    [] l.cmd = "startFight" -> Gated(v) /\ st.strength < 1
    [] OTHER -> FALSE

FamineDays == 4

FamineLogs == 10

Famine == [logs |-> FamineLogs, day |-> FamineDays, fights |-> 0]

\* Every night of this specification is a disaster night (famine or flood):
\* the people starve.
NextFamine ==
  \/ Sleep(Famine, {100}, {40}, {0})
  \/ Pay(Famine)

SpecFamine == Init /\ [][NextFamine]_vars

\* C8: a command invoked while its precondition is unmet leaves every field
\* of the state other than the log unchanged.
RefusalLeavesLedger ==
  [][ PreconditionUnmet(variant, s, last') => NonLog(s') = NonLog(s) ]_vars

\* C9: a command invoked while its precondition is unmet appends exactly one
\* log entry.
RefusalLogsOnce ==
  [][ PreconditionUnmet(variant, s, last') => Len(s'.logs) = Len(s.logs) + 1 ]_vars

\* C12: two merchant events with no merchant event between them never both
\* offer a weapon and never offer the same unique item.  Every night of the
\* market is a merchant event: last_merchant_offer_type is an exact record of
\* the offer of the last merchant event (written by that event, kept by every
\* other command), and the offer of a night differs from that record.
OfferNeverRepeats ==
  [][ /\ last'.cmd = "sleep" =>
           LET o == s'.pendingMerchant
               was == s.last_merchant_offer_type
           IN /\ o # NoOffer
              /\ s'.last_merchant_offer_type = (IF o.kind = "weapon" THEN "weapon" ELSE o.name)
              /\ ~(o.kind = "weapon" /\ was = "weapon")
              /\ ~(o.kind = "unique" /\ o.name = was)
      /\ last'.cmd # "sleep" => s'.last_merchant_offer_type = s.last_merchant_offer_type ]_vars

\* The third merchant in a row offers a weapon; nothing was bought before.
ThirdOfferIsWeapon ==
  /\ last.cmd = "sleep" /\ s.day = 4 /\ s.merchant_relationship = 0
  /\ s.pendingMerchant.kind = "weapon" /\ s.last_merchant_offer_type = "weapon"

----------------------------------------------------------------------------
(* The bazaar: a merchant every night, for the rich and for the poor       *)

BazaarDays == 3

BazaarLogs == 5

Bazaar == [logs |-> BazaarLogs, day |-> BazaarDays, fights |-> 0]

\* A purchase at the shop that leaves 40 coins, less than any offer costs.
BazaarOrders == {<<"meat", 19999>>}

NextBazaar ==
  \/ Sleep(Bazaar, {100}, {30}, {0})
  \/ BuyMerchant(Bazaar)
  \/ BuyStack(Bazaar, BazaarOrders)

SpecBazaar == Init /\ [][NextBazaar]_vars

\* C11: buy-merchant with a pending offer and money >= its price takes
\* exactly the price, clears the offer and sets merchant_relationship to
\* min(5, r + 1); a weapon sets minDmg = 5 + bonus and maxDmg = 15 + bonus,
\* Golden Cheese sets happiness to min(100, happiness + 5), Ancient Scroll
\* adds 1 to maxstrength, Map Fragment changes nothing else; with money below
\* the price nothing but the log changes.
MerchantPurchase ==
  [][ last'.cmd = "buyMerchant" /\ s.pendingMerchant # NoOffer =>
        LET p == s.pendingMerchant
            paid == [s EXCEPT !.money = @ - p.price, !.pendingMerchant = NoOffer,
                              !.merchant_relationship = IF @ + 1 > 5 THEN 5 ELSE @ + 1]
        IN IF s.money < p.price THEN NonLog(s') = NonLog(s)
           ELSE CASE p.kind = "weapon" ->
                       /\ s'.money = paid.money
                       /\ s'.pendingMerchant = NoOffer
                       /\ s'.merchant_relationship = paid.merchant_relationship
                       /\ s'.minDmg = 5 + p.bonus /\ s'.maxDmg = 15 + p.bonus
                  [] p.name = "Golden Cheese" ->
                       NonLog(s') = NonLog([paid EXCEPT !.happiness = IF @ + 5 > 100 THEN 100 ELSE @ + 5])
                  [] p.name = "Ancient Scroll" ->
                       NonLog(s') = NonLog([paid EXCEPT !.maxstrength = @ + 1])
                  [] OTHER -> NonLog(s') = NonLog(paid) ]_vars

\* The Ancient Scroll has been bought from the first merchant.
ScrollBought ==
  /\ last.cmd = "buyMerchant" /\ s.pendingMerchant = NoOffer
  /\ s.merchant_relationship = 1 /\ s.maxstrength = 4 /\ s.money = 998990

----------------------------------------------------------------------------
(* The council: policies unlocked by night and toggled by day              *)

CouncilDays == 3

CouncilLogs == 7

Council == [logs |-> CouncilLogs, day |-> CouncilDays, fights |-> 0]

\* The nights of the council are calm or unlock a policy (roll 56..60).
NextCouncil ==
  \/ Sleep(Council, {100}, {60, 100}, {0})
  \/ TogglePolicy(Council)

SpecCouncil == Init /\ [][NextCouncil]_vars

\* The step from st to nx is a night whose random event is the policy unlock.
UnlockNight(v, st, nx) ==
  IF v = "buildings"
  THEN \E ev \in ChoiceDraws : nx \in command_sleep_b(st, 60, ev)
  ELSE \E r \in InlineRolls : nx \in command_sleep_m(v, st, r, 60)

----------------------------------------------------------------------------
(* The duel: fights fought to the end and beyond                           *)

DuelFights == 3

Duel == [logs |-> 1, day |-> 1, fights |-> DuelFights]

NextDuel ==
  \/ StartFight(Duel, {"EASY", "HARD"})
  \/ PlayerAction(Duel, {"strike"})

SpecDuel == Init /\ [][NextDuel]_vars

\* C14: the strike or damage-potion action that brings ehealth to 0 settles
\* the victory within the same invocation: money grows by a reward between
\* coins_min and coins_max of the enemy, wfight by exactly 1, lfight is
\* unchanged and the fight is marked over.
VictorySettledAtOnce ==
  [][ /\ last'.cmd = "playerAction" /\ last'.arg[1] \in {"strike", "dmg_pot"}
      /\ s.fight.cfg # NoCfg /\ s.ehealth > 0 /\ s'.ehealth = 0
      => /\ s'.money - s.money \in s.fight.cfg.coins_min..s.fight.cfg.coins_max
         /\ s'.wfight = s.wfight + 1
         /\ s'.lfight = s.lfight
         /\ s'.fight.over ]_vars

\* C15: once a fight is settled (a health bar at 0), every further
\* player-action leaves the whole state unchanged until the next start-fight.
SettledFightIsFrozen ==
  [][ /\ last'.cmd = "playerAction"
      /\ s.fight.cfg # NoCfg /\ (s.ehealth = 0 \/ s.phealth = 0)
      => s' = s ]_vars

\* C16: there is no reachable state with a started fight in which a health
\* bar is at 0 and the fight is not marked over with its win or loss counted.
NoUnsettledZero ==
  s.fight.cfg # NoCfg /\ (s.ehealth <= 0 \/ s.phealth <= 0)
    => s.fight.over /\ s.wfight + s.lfight >= 1

----------------------------------------------------------------------------
(* Potions in a fight                                                      *)

\* The inventory counter a potion action drinks from.
FlaskOf(action) ==
  CASE action = "heal" -> "hpotion"
    [] action = "dmg_pot" -> "dpotion"
    [] action = "lightning" -> "lightning_potion"
    [] action = "sleep" -> "sleep_potion"
    [] OTHER -> "poison_potion"

\* The step is a player-action of one of the kinds in acts, in a fight that
\* is started and, in the builds that mark it, not over.
FightStep(acts) ==
  /\ last'.cmd = "playerAction" /\ last'.arg[1] \in acts
  /\ s.fight.cfg # NoCfg /\ ~s.fight.over

\* C17: a lightning or sleep-potion action that consumes a potion leaves the
\* enemy stunned for its next turn.
StunAfterPotion ==
  [][ /\ FightStep({"lightning", "sleep"})
      /\ s'.inventory[FlaskOf(last'.arg[1])] < s.inventory[FlaskOf(last'.arg[1])]
      => s'.fight.stunned ]_vars

\* C18: a potion action attempted while its inventory counter is 0 changes
\* no field of the state.
EmptyFlaskNoOp ==
  [][ /\ FightStep({"heal", "dmg_pot", "lightning", "sleep", "poison"})
      /\ s.inventory[FlaskOf(last'.arg[1])] = 0
      => s' = s ]_vars

\* C19: heal, lightning, sleep-potion and poison never include an enemy
\* attack (phealth does not decrease), with or without a potion; heal with a
\* potion sets phealth to exactly 100 and drinks exactly one health potion.
PotionsSkipEnemyTurn ==
  [][ /\ (last'.cmd = "playerAction" /\ last'.arg[1] \in {"heal", "lightning", "sleep", "poison"}
            => s'.phealth >= s.phealth)
      /\ (FightStep({"heal"}) /\ s.inventory.hpotion > 0
            => s'.phealth = 100 /\ s'.inventory.hpotion = s.inventory.hpotion - 1) ]_vars

\* A health potion has healed the wounds of an exchange of blows.
HealedAfterBlows ==
  /\ last.cmd = "playerAction" /\ last.arg = <<"heal">>
  /\ s.fight.cfg # NoCfg /\ s.phealth = 100 /\ s.ehealth \in {75, 85}
  /\ s.inventory.hpotion = 0 /\ s.wfight + s.lfight = 0

\* C20: fight.poisonTurns is in 0..3 in every reachable state; a poison
\* potion sets the counter to 3 whatever it was, and every poison tick takes
\* at most 5 health from the enemy and one turn from the counter.
PoisonBounded ==
  /\ [](s.fight.poisonTurns \in 0..3)
  /\ [][ /\ last'.cmd = "playerAction" /\ last'.arg[1] \in {"heal", "lightning", "sleep", "poison"} =>
              LET armed == IF s'.inventory.poison_potion < s.inventory.poison_potion
                           THEN 3 ELSE s.fight.poisonTurns
              IN \/ s'.ehealth = s.ehealth /\ s'.fight.poisonTurns = armed
                 \/ /\ armed > 0 /\ s'.fight.poisonTurns = armed - 1
                    /\ s.ehealth - s'.ehealth \in 1..5 /\ s'.ehealth >= 0
         /\ last'.cmd = "playerAction" /\ last'.arg[1] \in {"strike", "block", "dmg_pot"} =>
              s'.fight.poisonTurns \in {s.fight.poisonTurns - 1, s.fight.poisonTurns}
         /\ last'.cmd = "startFight" => s'.fight.poisonTurns \in {0, s.fight.poisonTurns}
         /\ last'.cmd \notin {"playerAction", "startFight"} =>
              s'.fight.poisonTurns = s.fight.poisonTurns ]_vars

\* A second flask of poison has been used while the first was still active.
PoisonRenewed ==
  /\ last.cmd = "playerAction" /\ last.arg = <<"poison">>
  /\ s.inventory.poison_potion = 0 /\ s.ehealth = 90 /\ s.fight.poisonTurns = 2

----------------------------------------------------------------------------
(* Starting a fight                                                        *)

\* C21: in the builds with action gates, start-fight with strength >= 1
\* takes exactly 1 strength and sets phealth = 100, ehealth = the health of
\* the chosen enemy, stunned = false, poisonTurns = 0 and over = false,
\* whatever the fight sub-state was; with strength = 0 it changes nothing
\* but the log.
StartFightResets ==
  [][ last'.cmd = "startFight" /\ Gated(variant) =>
        IF s.strength >= 1
        THEN /\ s'.strength = s.strength - 1
             /\ s'.phealth = 100
             /\ s'.ehealth = ENEMY[last'.arg[1]].health
             /\ s'.fight = [cfg |-> ENEMY[last'.arg[1]], stunned |-> FALSE, poisonTurns |-> 0, over |-> FALSE]
        ELSE NonLog(s') = NonLog(s) ]_vars

\* A second fight has been started after a fight that was won.
FightAfterVictory ==
  /\ Gated(variant) /\ last.cmd = "startFight" /\ s.wfight = 1
  /\ ~s.fight.over /\ s.ehealth = s.fight.cfg.health /\ s.strength = 1

----------------------------------------------------------------------------
(* The chronicle: a log that outgrows its cap                              *)

\* The id of the newest log entry (0 for an empty log).
lastId(st) == IF Len(st.logs) > 0 THEN st.logs[Len(st.logs)].id ELSE 0

ChronicleEntries == 603

\* The log budget is above the cap: the run is bounded by the entry ids.
Chronicle == [logs |-> LOG_CAP + 1, day |-> 1, fights |-> 1]

\* Expansions until the ruler is exhausted or the top age is reached, and
\* then refusal after refusal.
NextChronicle ==
  \/ lastId(s) < ChronicleEntries /\ Expand(Chronicle)
  \/ lastId(s) < ChronicleEntries /\ StartFight(Chronicle, {"EASY"})

SpecChronicle == Init /\ [][NextChronicle]_vars

\* C22: the log never holds more than 600 entries, the ids along the log
\* increase by 1 from entry to entry, every appended entry takes the last id
\* plus 1 (also after eviction), and the entries evicted are the oldest: the
\* entries kept are the newest ones, unchanged and in their order.
LogIsFifo ==
  /\ [](/\ Len(s.logs) <= LOG_CAP
        /\ \A i \in 1..(Len(s.logs) - 1) : s.logs[i + 1].id = s.logs[i].id + 1)
  /\ [][ s'.logs # s.logs =>
           LET k == lastId(s') - lastId(s)
               n == Len(s.logs)
               drop == Max(0, n + k - LOG_CAP)
           IN /\ k >= 1
              /\ Len(s'.logs) = n + k - drop
              /\ \A i \in 1..(n - drop) : s'.logs[i] = s.logs[i + drop] ]_vars

\* The first entry has been evicted.
FirstEntryEvicted == Len(s.logs) = LOG_CAP /\ s.logs[1].id = 3 /\ lastId(s) = LOG_CAP + 2

----------------------------------------------------------------------------
(* The reform: night after night a policy emerges                          *)

ReformDays == 10

ReformLogs == 40

Reform == [logs |-> ReformLogs, day |-> ReformDays, fights |-> 0]

\* Every night draws the policy bucket of random_event.
NextReform == Sleep(Reform, {100}, {60}, {0})

SpecReform == Init /\ [][NextReform]_vars

\* C23: for every roll outside the merchant range 21-30 and for every
\* state, one invocation of random_event appends exactly one log entry.
EventLogsOnce ==
  \A roll \in EventRolls \ {30} :
    \A x \in random_event(variant, s, s, roll) : Len(x.logs) = Len(s.logs) + 1

----------------------------------------------------------------------------
(* The armoury: weapons from the shop and from the merchant                *)

ArmouryDays == 2

ArmouryLogs == 6

Armoury == [logs |-> ArmouryLogs, day |-> ArmouryDays, fights |-> 0]

\* The first two blades of the Stone Age and the first of the Iron Age.
ArmouryWeapons == {<<1, 1>>, <<1, 2>>, <<3, 1>>}

NextArmoury ==
  \/ Sleep(Armoury, {100}, {30}, {0})
  \/ BuyMerchant(Armoury)
  \/ BuyWeapon(Armoury, ArmouryWeapons)

SpecArmoury == Init /\ [][NextArmoury]_vars

\* The damage bonus of the best shop weapon owned: within an era the shop
\* sells ids in increasing order only, and the damage grows with the id.
BestShopBonus(st) ==
  LET owned == {w \in WEAPONS : w.id = st.owned_weapon[w.era]}
  IN IF owned = {} THEN 0 ELSE CHOOSE b \in {w.damage : w \in owned} : \A w \in owned : w.damage <= b

\* C24: after any sequence of weapon purchases minDmg = 5 + B and
\* maxDmg = 15 + B, B being the largest damage bonus among the weapons
\* bought so far (stated for B while no merchant weapon has been bought);
\* minDmg and maxDmg never decrease.
DamageIsBestBonus ==
  /\ [](s.merchant_weapon_log = {} =>
          s.minDmg = 5 + BestShopBonus(s) /\ s.maxDmg = 15 + BestShopBonus(s))
  /\ [][s'.minDmg >= s.minDmg /\ s'.maxDmg >= s.maxDmg]_vars

----------------------------------------------------------------------------
(* The reign: calm nights up to the death day and beyond                   *)

ReignDays == 82

ReignLogs == 300

Reign == [logs |-> ReignLogs, day |-> ReignDays, fights |-> 0]

NextReign == Sleep(Reign, {100}, {100}, {0})

SpecReign == Init /\ [][NextReign]_vars

\* The tags of the entries that a step from st to nx has appended.
appendedTags(st, nx) ==
  {nx.logs[i].tag : i \in {j \in 1..Len(nx.logs) : nx.logs[j].id > lastId(st)}}

\* C25: every sleep after which day >= death_day appends a log entry with
\* tag danger, and no sleep that leaves day < death_day appends one.
DeathIsAnnounced ==
  [][ last'.cmd = "sleep" =>
        (s'.day >= s'.death_day <=> "danger" \in appendedTags(s, s')) ]_vars

\* C30: once day >= death_day no later sleep advances day or changes money,
\* people, happiness or bread.
ReignEndsAtDeath ==
  [][ last'.cmd = "sleep" /\ s.day >= s.death_day =>
        /\ s'.day = s.day /\ s'.money = s.money /\ s'.people = s.people
        /\ s'.happiness = s.happiness /\ s'.inventory.bread = s.inventory.bread ]_vars

----------------------------------------------------------------------------
(* The archive: saving, loading and clearing the save                      *)

ArchiveLogs == 4

Archive == [logs |-> ArchiveLogs, day |-> 1, fights |-> 0]

\* A browser whose storage holds no save, or a text that is not JSON.
InitArchive ==
  /\ variant \in Variants
  /\ s \in NewGame
  /\ last = [cmd |-> "init", arg |-> <<>>]
  /\ store \in {NoSave, Unreadable}
  /\ returned = "undefined"
  /\ toil = [rested |-> s.strength, done |-> 0]

NextArchive ==
  \/ Save(Archive)
  \/ Load(Archive)
  \/ ClearSave(Archive)
  \/ Pay(Archive)

SpecArchive == InitArchive /\ [][NextArchive]_vars

\* C26: if load finds no stored save, or a text that cannot be
\* deserialized, every field other than the log keeps its value, exactly one
\* log entry is appended (tag danger for unreadable data) and load returns
\* false.
LoadFailureKeepsState ==
  [][ last'.cmd = "load" /\ store.kind # "json" =>
        /\ NonLog(s') = NonLog(s)
        /\ Len(s'.logs) = Len(s.logs) + 1
        /\ SubSeq(s'.logs, 1, Len(s.logs)) = s.logs
        /\ (store.kind = "garbage" => s'.logs[Len(s'.logs)].tag = "danger")
        /\ returned' = "false" ]_vars

\* An unreadable save has been refused after the people were paid.
UnreadableRefused ==
  /\ last.cmd = "load" /\ store = Unreadable /\ returned = "false"
  /\ s.money = 999985 /\ s.logs[Len(s.logs)].tag = "danger"

----------------------------------------------------------------------------
(* Expansion                                                               *)

\* C27: a successful expand takes exactly the current exmoney from money,
\* doubles exmoney and maxpeople and adds 1 to number; in every reachable
\* state exmoney = 5000 * 2^(number+1), maxpeople = 50 * 2^(number+1) and
\* number is in -1..6.
ExpandDoubles ==
  /\ [](/\ s.number \in -1..6
        /\ s.exmoney = 5000 * 2^(s.number + 1)
        /\ s.maxpeople = 50 * 2^(s.number + 1))
  /\ [][ last'.cmd = "expand" /\ s'.number # s.number =>
           /\ s.money >= s.exmoney /\ s.number < 6
           /\ s'.money = s.money - s.exmoney
           /\ s'.exmoney = 2 * s.exmoney
           /\ s'.maxpeople = 2 * s.maxpeople
           /\ s'.number = s.number + 1 ]_vars

\* The seventh expansion has reached the top age.
TopAgeReached ==
  /\ last.cmd = "expand" /\ s.number = 6 /\ s.exmoney = 640000
  /\ s.maxpeople = 6400 /\ s.money = 364990 /\ Len(s.logs) = 7

----------------------------------------------------------------------------
(* The omens: choice events                                                *)

OmenDays == 4

OmenLogs == 8

Omen == [logs |-> OmenLogs, day |-> OmenDays, fights |-> 0]

\* Calm nights that may end with a choice event, the two answers to it, and
\* the click beside the overlay.
NextOmen ==
  \/ Sleep(Omen, {100}, {100}, ChoiceDraws)
  \/ ResolveChoice(Omen)
  \/ DismissChoice

SpecOmen == Init /\ [][NextOmen]_vars

\* C28: while a choice event is pending no sleep replaces it or sets another
\* one; choiceEvent goes from null to an event only through the draw of
\* sleep, and a pending event is cleared by resolve-choice only, so that a
\* new event is set only after the pending one has been resolved.
ChoiceWaitsForAnswer ==
  [][ /\ (s.choiceEvent # NoChoice /\ last'.cmd = "sleep" => s'.choiceEvent = s.choiceEvent)
      /\ (s.choiceEvent = NoChoice /\ s'.choiceEvent # NoChoice => last'.cmd = "sleep")
      /\ (s.choiceEvent # NoChoice /\ s'.choiceEvent = NoChoice => last'.cmd = "resolveChoice") ]_vars

----------------------------------------------------------------------------
(* The charter: policies in force during the night                         *)

CharterDays == 4

CharterLogs == 12

Charter == [logs |-> CharterLogs, day |-> CharterDays, fights |-> 0]

\* Nights on which a policy emerges or a decision pleases the people.
NextCharter ==
  \/ Sleep(Charter, {100}, {50, 60}, {0})
  \/ TogglePolicy(Charter)

SpecCharter == Init /\ [][NextCharter]_vars

\* The night in the order the day-advance pipeline is described: the random
\* event first, the policy upkeep on its result.
upkeepAfterEvent(v, prev, r, roll) ==
  LET s1 == {daily_notices(x) : x \in inline_event(consume_food(prev), r)}
      s2 == UNION {random_event(v, prev, x, roll) : x \in s1}
  IN UNION {policy_upkeep(x) : x \in s2}

\* C29: within one sleep of the builds with policy upkeep, the upkeep is
\* evaluated on the state that already holds the effects of that day's
\* random event: the state after the sleep is one that the upkeep yields
\* when it is applied to an outcome of the random event.
UpkeepSeesEvent ==
  [][ last'.cmd = "sleep" /\ variant # "buildings" =>
        \E r \in InlineRolls, roll \in EventRolls :
          \E x \in upkeepAfterEvent(variant, s, r, roll) : NonLog(x) = NonLog(s') ]_vars

----------------------------------------------------------------------------
(* The fight overlay                                                       *)

\* Whether the fight overlay shows enabled start-fight buttons: the builds
\* of part_000 render them only while fight.cfg is null and disable them
\* without strength; the "main" build always shows them.  (StartFight above
\* is the handler itself, which the model lets run in any state.)
startFightOffered(v, st) == IF Gated(v) THEN st.fight.cfg = NoCfg /\ can_fight(st) ELSE TRUE

\* C31: a finished fight never blocks combat: in every state in which the
\* fight is over and strength >= 1 the player has an enabled start-fight
\* command, and invoking it yields a fresh fight (over = false,
\* phealth = 100, ehealth = the enemy's health).
FinishedFightCanRestart ==
  s.fight.cfg # NoCfg /\ s.fight.over /\ s.strength >= 1 =>
    /\ startFightOffered(variant, s)
    /\ \A diff \in Difficulties :
         LET x == startFight(variant, s, diff)
         IN ~x.fight.over /\ x.phealth = 100 /\ x.ehealth = ENEMY[diff].health

----------------------------------------------------------------------------
(* The day's work                                                          *)

\* C32: between two consecutive sleeps the number of successful
\* strength-consuming commands (tax, pay, expand, build, start-fight) is at
\* most the strength right after the first of them.
ToilWithinStrength == s.day > 1 => toil.done <= toil.rested

----------------------------------------------------------------------------
(* The ages                                                                *)

\* The ages in their order: the initial age and ERA_SEQ.
Ages == <<"Stone Age">> \o ERA_SEQ

\* The age after e (e itself for the last age).
nextAge(e) ==
  LET i == CHOOSE k \in 1..Len(Ages) : Ages[k] = e
  IN IF i < Len(Ages) THEN Ages[i + 1] ELSE e

\* C33: every successful expand moves currentEra to the next age of the
\* sequence; when currentEra is already Modern Age, expand is refused and
\* money, exmoney and maxpeople are unchanged.
ExpandFollowsAges ==
  [][ last'.cmd = "expand" =>
        IF s.currentEra = "Modern Age"
        THEN s'.money = s.money /\ s'.exmoney = s.exmoney /\ s'.maxpeople = s.maxpeople
        ELSE s'.number # s.number => s'.currentEra = nextAge(s.currentEra) ]_vars

----------------------------------------------------------------------------
(* The caravan: the merchant and the march of the ages                     *)

CaravanDays == 3

CaravanLogs == 8

Caravan == [logs |-> CaravanLogs, day |-> CaravanDays, fights |-> 0]

NextCaravan ==
  \/ Sleep(Caravan, {100}, {30}, {0})
  \/ Expand(Caravan)
  \/ BuyMerchant(Caravan)

SpecCaravan == Init /\ [][NextCaravan]_vars

\* The age whose merchant catalog holds the weapon of that name.
catalogAge(name) ==
  CHOOSE e \in EraNames : \E i \in 1..Len(MERCHANT_BY_ERA[e]) : MERCHANT_BY_ERA[e][i].name = name

\* C34: when a merchant weapon offer is bought, the age added to
\* merchant_weapon_log is the age whose catalog the weapon came from, also
\* when expand ran between the offer and the purchase; and no merchant event
\* makes a weapon offer while currentEra is in merchant_weapon_log.
WeaponLogNamesCatalog ==
  [][ /\ (/\ last'.cmd = "buyMerchant" /\ s.pendingMerchant.kind = "weapon"
          /\ s'.pendingMerchant = NoOffer
          => s'.merchant_weapon_log = s.merchant_weapon_log \cup {catalogAge(s.pendingMerchant.name)})
      /\ (/\ last'.cmd = "sleep" /\ "merchant" \in appendedTags(s, s')
          /\ s'.pendingMerchant.kind = "weapon"
          => s.currentEra \notin s.merchant_weapon_log) ]_vars

----------------------------------------------------------------------------
(* A calm night                                                            *)

\* command_sleep of build v: the outcomes of a sleep in state prev with the
\* in-line draw r, the random_event roll and the choice draw ev.
command_sleep(v, prev, r, roll, ev) ==
  IF v = "buildings" THEN command_sleep_b(prev, roll, ev) ELSE command_sleep_m(v, prev, r, roll)

\* C35: on a sleep for which random_event draws a calm day (roll 81-100),
\* with no active policy and no buildings, money is unchanged, and happiness
\* and people change only by the food-shortage penalties of that sleep.
CalmDayHasNoEffect ==
  (\A p \in DOMAIN s.policies : ~s.policies[p].active) /\ s.buildings = <<>> =>
    \A r \in InlineRolls, ev \in ChoiceDraws :
      \A x \in command_sleep(variant, s, r, 100, ev) :
        /\ x.money = s.money
        /\ x.happiness = consume_food(s).happiness
        /\ x.people = consume_food(s).people

----------------------------------------------------------------------------
(* The previous state object of resolveChoice                              *)

\* The object `prev` as the updater of resolveChoice leaves it. `next` is a
\* shallow copy, `{ ...prev }`, so next.inventory and prev.inventory are one
\* object: the assignments to next.money, next.happiness, next.people,
\* next.strength and next.maxstrength stay in the copy, the assignment to
\* next.inventory.bread is a write into the inventory of prev.
resolveChoice_prev(prev, eff) ==
  IF eff.bread # 0 THEN [prev EXCEPT !.inventory.bread = Max(0, @ + eff.bread)] ELSE prev

\* C36: resolveChoice builds the next state without modifying the previous
\* one: once the updater has returned, the previous state has the bread and
\* every other field it had before, so that the same option applied a second
\* time to the same previous state gives the same next state.
ResolveChoiceKeepsPrev ==
  s.choiceEvent # NoChoice =>
    \A i \in 1..2 :
      LET eff == CHOICE_EVENTS[s.choiceEvent][i]
      IN /\ resolveChoice_prev(s, eff) = s
         /\ resolveChoice(resolveChoice_prev(s, eff), eff) = resolveChoice(s, eff)

----------------------------------------------------------------------------
(* The borders: migrants and travellers                                    *)

BordersDays == 3

BordersLogs == 10

Borders == [logs |-> BordersLogs, day |-> BordersDays, fights |-> 0]

\* Nights that are calm or unlock a policy and bring travellers or nobody,
\* and the policy buttons.
NextBorders ==
  \/ Sleep(Borders, {40, 100}, {60, 100}, {0})
  \/ TogglePolicy(Borders)

SpecBorders == Init /\ [][NextBorders]_vars

\* C37: people <= maxpeople in every reachable state: travellers and the
\* migrants of Open Borders never push people above maxpeople, and an event
\* logged as a population gain (travellers, migrants) never lowers people.
PeopleWithinMax ==
  /\ s.people <= s.maxpeople
  /\ variant # "buildings" =>
       LET fed == consume_food(s)
       IN \A x \in inline_event(fed, 40) \cup open_borders(fed) : x.people >= fed.people

----------------------------------------------------------------------------
(* The building slots                                                      *)

MasonsDays == 2

MasonsLogs == 12

Masons == [logs |-> MasonsLogs, day |-> MasonsDays, fights |-> 0]

\* The building with an immediate effect and one with a daily yield.
MasonsIds == {"barracks", "farm"}

\* A purchase that empties the treasury.
MasonsOrders == {<<"meat", 19999>>}

\* Calm nights, expansions, building sites and a ruinous banquet.
NextMasons ==
  \/ Sleep(Masons, {100}, {100}, {0})
  \/ Expand(Masons)
  \/ Build(Masons, MasonsIds)
  \/ BuyStack(Masons, MasonsOrders)

\* The towns of the build that has buildings.
InitMasons == Init /\ variant = "buildings"

SpecMasons == InitMasons /\ [][NextMasons]_vars

\* C38: in the "buildings" build buildings.length <= maxBuildings and
\* 3 <= maxBuildings <= 5 in every reachable state; a successful build adds
\* exactly one building and deducts exactly its cost and one strength; a
\* build with no free slot, with strength 0 or with too little money adds no
\* building.
BuildingsWithinSlots ==
  /\ [](variant = "buildings" => Len(s.buildings) <= s.maxBuildings /\ s.maxBuildings \in 3..5)
  /\ [][ variant = "buildings" /\ last'.cmd = "build" =>
           LET id == last'.arg[1]
           IN IF Len(s.buildings) < s.maxBuildings /\ s.strength >= 1 /\ s.money >= BuildingDef(id).cost
              THEN /\ s'.buildings = Append(s.buildings, id)
                   /\ s'.money = s.money - BuildingDef(id).cost
                   /\ s'.strength = s.strength - 1
              ELSE s'.buildings = s.buildings ]_vars

\* Every slot of the largest town is built on.
TownIsFull ==
  /\ variant = "buildings" /\ last.cmd = "build"
  /\ s.maxBuildings = 5 /\ Len(s.buildings) = 5

----------------------------------------------------------------------------
(* Strikes end the fight                                                   *)

\* C39: a fight that is not over is over after finitely many strikes:
\* minDmg >= 5 in every reachable state, every strike in a running fight
\* lowers ehealth by at least 5 (to 0 at the lowest), and the strike that
\* leaves ehealth at 0 marks the fight over, so that ceil(enemy health /
\* minDmg) strikes are enough.
StrikesEndFight ==
  /\ [](s.minDmg >= 5)
  /\ [][ /\ s.fight.cfg # NoCfg /\ ~s.fight.over
         /\ last'.cmd = "playerAction" /\ last'.arg = <<"strike">>
         => /\ s'.ehealth <= Max(0, s.ehealth - 5)
            /\ s'.ehealth = 0 => s'.fight.over ]_vars

====
